---- MODULE Spec2Model ----
(***************************************************************************)
(* A model of the boaapi Python client: the cookie/CSRF carrying XML-RPC   *)
(* transport (boaapi/util.py), the BoaClient facade (boaapi/boa_client.py) *)
(* and the JobHandle with its is_running/wait/refresh (boaapi/job_handle). *)
(*                                                                         *)
(* Strings whose characters the code inspects (Set-Cookie directives,      *)
(* cookie values, CSRF tokens, header values) are sequences of one-        *)
(* character strings, so that split and join are computed, not assumed.    *)
(***************************************************************************)
EXTENDS Integers, Sequences, FiniteSets, TLC

VARIABLES
    logged_in,   \* BoaClient.__logged_in
    cookies,     \* CookiesTransport._cookies
    csrf,        \* CookiesTransport._csrf
    job,         \* the JobHandle the caller holds (NoJob: none yet)
    wait_pc,     \* position of a JobHandle.wait() in progress
    polls,       \* loop iterations of the wait() in progress / just ended
    last,        \* the operation that completed last, as the caller saw it
    observed     \* history: Set-Cookie directives handed to parse_response

vars == <<logged_in, cookies, csrf, job, wait_pc, polls, last, observed>>

----------------------------------------------------------------------------
(* Bounds of the model.                                                    *)

MaxCookies == 2      \* Set-Cookie directives received over the lifetime
MaxCsrf == 2         \* tokens added over the lifetime
MaxPolls == 2        \* iterations of one wait() loop
MaxRedirects == 2    \* 301 responses in front of one fetched body

----------------------------------------------------------------------------
(* Values exchanged with the server.                                       *)

\* Set-Cookie directives a response may carry: with and without attributes.
Directives == { <<"a", ";", "p">>, <<"b">> }

\* Status strings of a job record: the three the decoders know, and others:
\* "Error", the empty string, a differently-cased spelling.
StatusStrings == { "Waiting", "Running", "Finished", "Error", "", "finished" }

\* One string for each status the decoders produce.
PlainStatusStrings == { "Waiting", "Running", "Finished", "Error" }

NoJob == [id |-> 0]
None == "None"
NoDataset == [none |-> TRUE]     \* query's dataset=None

\* status.py: both enumerations number their members 1..4.
WAITING == 1
RUNNING == 2
FINISHED == 3
ERROR == 4

CompilerStatus == { WAITING, RUNNING, FINISHED, ERROR }
ExecutionStatus == { WAITING, RUNNING, FINISHED, ERROR }

----------------------------------------------------------------------------
(* String helpers: str.split(";", 1)[0] and "; ".join(list).               *)

RECURSIVE split_first(_)
split_first(header) ==
    IF header = <<>> \/ Head(header) = ";"
    THEN <<>>
    ELSE <<Head(header)>> \o split_first(Tail(header))

RECURSIVE join(_)
join(parts) ==
    IF parts = <<>> THEN <<>>
    ELSE IF Len(parts) = 1 THEN parts[1]
    ELSE parts[1] \o <<";", " ">> \o join(Tail(parts))

----------------------------------------------------------------------------
(* CookiesTransport.                                                       *)

NoHeaders == [h \in {} |-> <<>>]

\* A transport that puts each new token in front of the older ones.
add_csrf_prepending(csf, token) == <<token>> \o csf

\* add_csrf: self._csrf.append(token)
add_csrf(csf, token) == Append(csf, token)

\* send_headers: both headers are put only when the cookie list is non-empty.
send_headers(cks, csf) ==
    IF cks # <<>>
    THEN [h \in {"Cookie", "X-CSRF-Token"} |->
            IF h = "Cookie" THEN join(cks) ELSE join(csf)]
    ELSE NoHeaders

\* A transport that puts each new cookie in front of the older ones.
RECURSIVE parse_response_prepending(_, _)
parse_response_prepending(cks, setcookie) ==
    IF setcookie = <<>> THEN cks
    ELSE parse_response_prepending(<<split_first(Head(setcookie))>> \o cks,
                                   Tail(setcookie))

\* parse_response: every Set-Cookie directive of the response, in order,
\* cut at its first ';' and appended.
RECURSIVE parse_response(_, _)
parse_response(cks, setcookie) ==
    IF setcookie = <<>> THEN cks
    ELSE parse_response(Append(cks, split_first(Head(setcookie))), Tail(setcookie))

----------------------------------------------------------------------------
(* The server, as far as one check lets it vary.  Every operation takes    *)
(* the environment E it runs against:                                      *)
(*   E.directives  the Set-Cookie directives an answer may carry,          *)
(*   E.tokens      the tokens user.login may return,                       *)
(*   E.records     the job records boa.job / boa.submit may return,        *)
(*   E.lists       the record lists boa.range may return,                  *)
(*   E.datasets    the dataset lists boa.datasets may return,              *)
(*   E.setters     the methods whose answers may carry Set-Cookie,         *)
(*   E.failures    the ways a call may fail,                               *)
(* and the arguments the caller may pass.                                  *)
(* An answer to one call through the ServerProxy is                        *)
(*   "ok"        a result,                                                 *)
(*   "fault"     an XML-RPC fault (xmlrpc.client.Fault),                   *)
(*   "malformed" a body that is not XML (xml.parsers.expat.ExpatError),    *)
(*   "transport" no parsable answer at all (ProtocolError / OSError):      *)
(*               parse_response is not reached.                            *)

RECURSIVE SeqsUpTo(_, _)
SeqsUpTo(S, n) ==
    IF n = 0 THEN { <<>> }
    ELSE LET shorter == SeqsUpTo(S, n - 1)
         IN shorter \cup { Append(s, x) : s \in shorter, x \in S }

Answers(E, method, obs, Bodies) ==
    LET scs == IF method \in E.setters
               THEN SeqsUpTo(E.directives, MaxCookies - Len(obs))
               ELSE { <<>> }
    IN  { [kind |-> "ok", setcookie |-> sc, body |-> b] : sc \in scs, b \in Bodies }
        \cup { [kind |-> k, setcookie |-> sc, body |-> None] :
                    k \in E.failures \ {"transport"}, sc \in scs }
        \cup { [kind |-> k, setcookie |-> <<>>, body |-> None] :
                    k \in E.failures \cap {"transport"} }

Raised(kind) ==
    CASE kind = "ok" -> "none"
      [] kind = "fault" -> "Fault"
      [] kind = "malformed" -> "ExpatError"
      [] kind = "transport" -> "ProtocolError"

\* A transport that harvests cookies only from answers that carry a result.
Call_harvesting_on_success(cks, csf, obs, method, arg, answer) ==
    LET parsed == answer.kind = "ok"
    IN  [ req      |-> [method |-> method, arg |-> arg,
                        headers |-> send_headers(cks, csf), seen |-> obs,
                        reply |-> [kind |-> answer.kind, body |-> answer.body,
                                   setcookie |-> answer.setcookie]],
          cookies  |-> IF parsed THEN parse_response(cks, answer.setcookie) ELSE cks,
          observed |-> IF parsed THEN obs \o answer.setcookie ELSE obs,
          raised   |-> Raised(answer.kind),
          value    |-> answer.body ]

\* self.server.<method>(arg): send_headers, the round trip, and
\* parse_response on every answer the transport gets to parse.
Call(cks, csf, obs, method, arg, answer) ==
    LET parsed == answer.kind # "transport"
    IN  [ req      |-> [method |-> method, arg |-> arg,
                        headers |-> send_headers(cks, csf), seen |-> obs,
                        reply |-> [kind |-> answer.kind, body |-> answer.body,
                                   setcookie |-> answer.setcookie]],
          cookies  |-> IF parsed THEN parse_response(cks, answer.setcookie) ELSE cks,
          observed |-> IF parsed THEN obs \o answer.setcookie ELSE obs,
          raised   |-> Raised(answer.kind),
          value    |-> answer.body ]

----------------------------------------------------------------------------
(* What the caller sees of a completed operation: the exception that left  *)
(* it ("none": it returned), that exception's __cause__, the requests it   *)
(* sent (each with the answer it got), the URLs fetch_url requested, its   *)
(* result, and, where a property needs them, its arguments.                *)

Outcome(op, exc, cause, reqs, result) ==
    [op |-> op, exc |-> exc, cause |-> cause, reqs |-> reqs, gets |-> <<>>,
     result |-> result, args |-> None]

WithArgs(outcome, args) == [outcome EXCEPT !.args = args]

\* "except xmlrpc.client.Fault as e: raise BoaException() from e"; any
\* other exception leaves the method as it is.
Translate(op, raised, reqs, result) ==
    IF raised = "Fault" THEN Outcome(op, "BoaException", "Fault", reqs, None)
    ELSE IF raised = "none" THEN Outcome(op, "none", "none", reqs, result)
    ELSE Outcome(op, raised, "none", reqs, None)

\* A client that never checks the flag.
ensure_logged_in_skipped(flag) == TRUE

\* ensure_logged_in: passes exactly when the flag is set.
ensure_logged_in(flag) == flag

NotLoggedIn(op) ==
    /\ last' = Outcome(op, "NotLoggedInException", "none", <<>>, None)
    /\ UNCHANGED <<logged_in, cookies, csrf, job, wait_pc, polls, observed>>

Idle == wait_pc = "idle"

----------------------------------------------------------------------------
(* BoaClient.login and BoaClient.close.                                    *)

LoginBodies(E) == { [token |-> t] : t \in E.tokens } \cup { [other |-> 0] }

\* login: the flag is set before the call; the token of the answer is
\* added; ExpatError and Fault become BoaException, anything else (a
\* transport error, the KeyError of an answer without "token") escapes.
login(E) ==
    /\ Idle
    /\ Len(csrf) < MaxCsrf
    /\ \E answer \in Answers(E, "user.login", observed, LoginBodies(E)) :
         LET c == Call(cookies, csrf, observed, "user.login", None, answer)
             hasToken == c.raised = "none" /\ "token" \in DOMAIN c.value
         IN  /\ logged_in' = TRUE
             /\ cookies' = c.cookies
             /\ observed' = c.observed
             /\ csrf' = IF hasToken THEN add_csrf(csrf, c.value.token) ELSE csrf
             /\ last' =
                  IF c.raised = "ExpatError"
                  THEN Outcome("login", "BoaException", "ExpatError", <<c.req>>, None)
                  ELSE IF c.raised = "none" /\ ~hasToken
                  THEN Outcome("login", "KeyError", "none", <<c.req>>, None)
                  ELSE Translate("login", c.raised, <<c.req>>, c.value)
    /\ UNCHANGED <<job, wait_pc, polls>>

\* A close that empties the transport's lists once logged out.
close_clearing(E) ==
    /\ Idle
    /\ IF ~ensure_logged_in(logged_in) THEN NotLoggedIn("close")
       ELSE /\ \E answer \in Answers(E, "user.logout", observed, {None}) :
                 LET c == Call(cookies, csrf, observed, "user.logout", None, answer)
                 IN  /\ logged_in' = (c.raised # "none")
                     /\ cookies' = IF c.raised = "none" THEN <<>> ELSE c.cookies
                     /\ csrf' = IF c.raised = "none" THEN <<>> ELSE csrf
                     /\ observed' = c.observed
                     /\ last' = Translate("close", c.raised, <<c.req>>, None)
            /\ UNCHANGED <<job, wait_pc, polls>>

\* A close that clears the flag whatever user.logout answers.
close_eager(E) ==
    /\ Idle
    /\ IF ~ensure_logged_in(logged_in) THEN NotLoggedIn("close")
       ELSE /\ \E answer \in Answers(E, "user.logout", observed, {None}) :
                 LET c == Call(cookies, csrf, observed, "user.logout", None, answer)
                 IN  /\ logged_in' = FALSE
                     /\ cookies' = c.cookies
                     /\ observed' = c.observed
                     /\ last' = Translate("close", c.raised, <<c.req>>, None)
            /\ UNCHANGED <<csrf, job, wait_pc, polls>>

\* close: the flag is cleared only after user.logout returned.
close(E) ==
    /\ Idle
    /\ IF ~ensure_logged_in(logged_in) THEN NotLoggedIn("close")
       ELSE /\ \E answer \in Answers(E, "user.logout", observed, {None}) :
                 LET c == Call(cookies, csrf, observed, "user.logout", None, answer)
                 IN  /\ logged_in' = (c.raised # "none")
                     /\ cookies' = c.cookies
                     /\ observed' = c.observed
                     /\ last' = Translate("close", c.raised, <<c.req>>, None)
            /\ UNCHANGED <<csrf, job, wait_pc, polls>>

----------------------------------------------------------------------------
(* One authenticated pass-through: ensure_logged_in, one call, Fault       *)
(* translated.  Used by the operations that do nothing else.               *)

RpcOp(E, op, method, arg, Bodies) ==
    /\ Idle
    /\ IF ~ensure_logged_in(logged_in) THEN NotLoggedIn(op)
       ELSE /\ \E answer \in Answers(E, method, observed, Bodies) :
                 LET c == Call(cookies, csrf, observed, method, arg, answer)
                 IN  /\ cookies' = c.cookies
                     /\ observed' = c.observed
                     /\ last' = Translate(op, c.raised, <<c.req>>, c.value)
            /\ UNCHANGED <<logged_in, csrf, job, wait_pc, polls>>

----------------------------------------------------------------------------
(* Dataset queries.                                                        *)

\* datasets: the list boa.datasets returns.
datasets(E) ==
    /\ Idle
    /\ RpcOp(E, "datasets", "boa.datasets", None, E.datasets)

Names(list) == [i \in DOMAIN list |-> list[i].name]

\* dataset_names: the 'name' of every entry of datasets().
dataset_names(E) ==
    /\ Idle
    /\ IF ~ensure_logged_in(logged_in) THEN NotLoggedIn("dataset_names")
       ELSE /\ \E answer \in Answers(E, "boa.datasets", observed, E.datasets) :
                 LET c == Call(cookies, csrf, observed, "boa.datasets", None, answer)
                 IN  /\ cookies' = c.cookies
                     /\ observed' = c.observed
                     /\ last' = Translate("dataset_names", c.raised, <<c.req>>,
                                          IF c.raised = "none" THEN Names(c.value) ELSE None)
            /\ UNCHANGED <<logged_in, csrf, job, wait_pc, polls>>

FirstNamed(list, name) ==
    LET hits == { i \in DOMAIN list : list[i].name = name }
    IN  IF hits = {} THEN None
        ELSE list[CHOOSE i \in hits : \A k \in hits : i <= k]

\* get_dataset: the first entry of datasets() with that name, or None.
get_dataset(E) ==
    /\ Idle
    /\ \E name \in E.names :
         IF ~ensure_logged_in(logged_in) THEN NotLoggedIn("get_dataset")
         ELSE /\ \E answer \in Answers(E, "boa.datasets", observed, E.datasets) :
                   LET c == Call(cookies, csrf, observed, "boa.datasets", None, answer)
                   IN  /\ cookies' = c.cookies
                       /\ observed' = c.observed
                       /\ last' = Translate("get_dataset", c.raised, <<c.req>>,
                                            IF c.raised = "none"
                                            THEN FirstNamed(c.value, name) ELSE None)
              /\ UNCHANGED <<logged_in, csrf, job, wait_pc, polls>>

\* job_count: the number boa.count returns.
job_count(E) ==
    /\ Idle
    /\ \E pub_only \in BOOLEAN :
         RpcOp(E, "job_count", "boa.count", pub_only, E.counts)

----------------------------------------------------------------------------
(* Status decoding and parse_job (boaapi/util.py).                         *)

parse_compiler_status(status) ==
    IF status = "Waiting" THEN WAITING
    ELSE IF status = "Running" THEN RUNNING
    ELSE IF status = "Finished" THEN FINISHED
    ELSE ERROR

\* A decoder that ignores the case of the status string.
parse_execution_status_caseless(status) ==
    IF status \in {"Waiting", "waiting"} THEN WAITING
    ELSE IF status \in {"Running", "running"} THEN RUNNING
    ELSE IF status \in {"Finished", "finished"} THEN FINISHED
    ELSE ERROR

parse_execution_status(status) ==
    IF status = "Waiting" THEN WAITING
    ELSE IF status = "Running" THEN RUNNING
    ELSE IF status = "Finished" THEN FINISHED
    ELSE ERROR

\* The keys parse_job reads; a record without one raises KeyError.
JobKeys == { "id", "submitted", "input", "compiler_status", "hadoop_status" }

parse_job(rec) ==
    [ id              |-> rec.id,
      date            |-> rec.submitted,
      dataset         |-> rec.input,
      compiler_status |-> parse_compiler_status(rec.compiler_status),
      exec_status     |-> parse_execution_status(rec.hadoop_status) ]

\* What an operation that builds one handle from the answer of `c` ends as.
Built(op, c, reqs) ==
    IF c.raised # "none" THEN Translate(op, c.raised, reqs, None)
    ELSE IF ~(JobKeys \subseteq DOMAIN c.value)
    THEN Outcome(op, "KeyError", "none", reqs, None)
    ELSE Outcome(op, "none", "none", reqs,
                 [record |-> c.value, handle |-> parse_job(c.value)])

Returned(outcome) == outcome.exc = "none"

----------------------------------------------------------------------------
(* Obtaining job handles.                                                  *)

\* get_job: the handle of the record boa.job(id) returns.
get_job(E) ==
    /\ Idle
    /\ \E id \in E.ids :
         IF ~ensure_logged_in(logged_in) THEN NotLoggedIn("get_job")
         ELSE /\ \E answer \in Answers(E, "boa.job", observed, E.records) :
                   LET c == Call(cookies, csrf, observed, "boa.job", id, answer)
                       out == Built("get_job", c, <<c.req>>)
                   IN  /\ cookies' = c.cookies
                       /\ observed' = c.observed
                       /\ last' = out
                       /\ job' = IF Returned(out) THEN out.result.handle ELSE job
              /\ UNCHANGED <<logged_in, csrf, wait_pc, polls>>

\* A query that takes the last dataset of the list.
first_dataset_from_end(list) == list[Len(list)]

\* "self.datasets()[0]"
first_dataset(list) == list[1]

\* query: without a dataset, datasets()[0] is fetched first; then
\* boa.submit(query, dataset.get('id')).
query(E) ==
    /\ Idle
    /\ \E q \in E.queries, dataset \in E.given \cup {NoDataset} :
         IF ~ensure_logged_in(logged_in) THEN NotLoggedIn("query")
         ELSE IF dataset # NoDataset
         THEN /\ \E answer \in Answers(E, "boa.submit", observed, E.records) :
                   LET c == Call(cookies, csrf, observed, "boa.submit",
                                 <<q, dataset.id>>, answer)
                       out == Built("query", c, <<c.req>>)
                   IN  /\ cookies' = c.cookies
                       /\ observed' = c.observed
                       /\ last' = WithArgs(out, <<q, dataset>>)
                       /\ job' = IF Returned(out) THEN out.result.handle ELSE job
              /\ UNCHANGED <<logged_in, csrf, wait_pc, polls>>
         ELSE /\ \E first \in Answers(E, "boa.datasets", observed, E.datasets) :
                   LET d == Call(cookies, csrf, observed, "boa.datasets", None, first)
                   IN  IF d.raised # "none"
                       THEN /\ cookies' = d.cookies
                            /\ observed' = d.observed
                            /\ last' = WithArgs(Translate("query", d.raised, <<d.req>>, None),
                                                <<q, dataset>>)
                            /\ job' = job
                       ELSE IF d.value = <<>>
                       THEN /\ cookies' = d.cookies
                            /\ observed' = d.observed
                            /\ last' = WithArgs(Outcome("query", "IndexError", "none",
                                                        <<d.req>>, None),
                                                <<q, dataset>>)
                            /\ job' = job
                       ELSE \E answer \in Answers(E, "boa.submit", d.observed, E.records) :
                            LET c == Call(d.cookies, csrf, d.observed, "boa.submit",
                                          <<q, first_dataset(d.value).id>>, answer)
                                out == Built("query", c, <<d.req, c.req>>)
                            IN  /\ cookies' = c.cookies
                                /\ observed' = c.observed
                                /\ last' = WithArgs(out, <<q, dataset>>)
                                /\ job' = IF Returned(out) THEN out.result.handle ELSE job
              /\ UNCHANGED <<logged_in, csrf, wait_pc, polls>>

\* The handles of a record list, in its order; KeyError at the first
\* record that lacks a key.
Complete(list) == \A i \in DOMAIN list : JobKeys \subseteq DOMAIN list[i]

\* A job_list that returns the handles in the opposite order.
Handles_reversed(list) ==
    [i \in DOMAIN list |-> parse_job(list[Len(list) + 1 - i])]

Handles(list) == [i \in DOMAIN list |-> parse_job(list[i])]

Listed(op, c) ==
    IF c.raised # "none" THEN Translate(op, c.raised, <<c.req>>, None)
    ELSE IF ~Complete(c.value) THEN Outcome(op, "KeyError", "none", <<c.req>>, None)
    ELSE Outcome(op, "none", "none", <<c.req>>,
                 [records |-> c.value, handles |-> Handles(c.value)])

\* The lists the server may answer boa.range(pub_only, offset, length)
\* with: at most `length` records, public ones only when pub_only is set.
Range(lists, range) ==
    { l \in lists : /\ Len(l) <= range[3]
                    /\ range[1] => \A i \in DOMAIN l : l[i].public }

\* job_list: one handle per record of boa.range(pub_only, offset, length).
job_list(E) ==
    /\ Idle
    /\ \E range \in E.ranges :
         IF ~ensure_logged_in(logged_in) THEN NotLoggedIn("job_list")
         ELSE /\ \E answer \in Answers(E, "boa.range", observed, Range(E.lists, range)) :
                   LET c == Call(cookies, csrf, observed, "boa.range", range, answer)
                   IN  /\ cookies' = c.cookies
                       /\ observed' = c.observed
                       /\ last' = WithArgs(Listed("job_list", c), range)
              /\ UNCHANGED <<logged_in, csrf, job, wait_pc, polls>>

\* last_job: job_list(False, 0, 1)[0].
last_job(E) ==
    /\ Idle
    /\ IF ~ensure_logged_in(logged_in) THEN NotLoggedIn("last_job")
       ELSE /\ \E answer \in Answers(E, "boa.range", observed,
                                     Range(E.lists, <<FALSE, 0, 1>>)) :
                 LET c == Call(cookies, csrf, observed, "boa.range", <<FALSE, 0, 1>>, answer)
                     l == Listed("last_job", c)
                     out == IF ~Returned(l) THEN l
                            ELSE IF l.result.handles = <<>>
                            THEN Outcome("last_job", "IndexError", "none", <<c.req>>, None)
                            ELSE Outcome("last_job", "none", "none", <<c.req>>,
                                         [record |-> l.result.records[1],
                                          handle |-> l.result.handles[1]])
                 IN  /\ cookies' = c.cookies
                     /\ observed' = c.observed
                     /\ last' = out
                     /\ job' = IF Returned(out) THEN out.result.handle ELSE job
            /\ UNCHANGED <<logged_in, csrf, wait_pc, polls>>

----------------------------------------------------------------------------
(* The operations a JobHandle delegates to its client, each on the handle  *)
(* the caller holds.                                                       *)

HasJob == job # NoJob

_stop(E) == HasJob /\ RpcOp(E, "_stop", "job.stop", job.id, {None})

\* A resubmit that puts the handle back to waiting once the server took it.
_resubmit_resetting(E) ==
    /\ HasJob
    /\ Idle
    /\ IF ~ensure_logged_in(logged_in) THEN NotLoggedIn("_resubmit")
       ELSE /\ \E answer \in Answers(E, "job.resubmit", observed, {None}) :
                 LET c == Call(cookies, csrf, observed, "job.resubmit", job.id, answer)
                 IN  /\ cookies' = c.cookies
                     /\ observed' = c.observed
                     /\ last' = Translate("_resubmit", c.raised, <<c.req>>, c.value)
                     /\ job' = IF c.raised = "none"
                               THEN [job EXCEPT !.compiler_status = WAITING,
                                                !.exec_status = WAITING]
                               ELSE job
            /\ UNCHANGED <<logged_in, csrf, wait_pc, polls>>

_resubmit(E) == HasJob /\ RpcOp(E, "_resubmit", "job.resubmit", job.id, {None})

_delete(E) == HasJob /\ RpcOp(E, "_delete", "job.delete", job.id, {None})

\* _set_public: job.setpublic(id, 1) for True, job.setpublic(id, 0) otherwise.
_set_public(E) ==
    /\ HasJob
    /\ \E is_public \in BOOLEAN :
         RpcOp(E, "_set_public", "job.setpublic",
               <<job.id, IF is_public = TRUE THEN 1 ELSE 0>>, {None})

\* _public_status: whether job.public(id) answered 1.
_public_status(E) ==
    /\ HasJob
    /\ Idle
    /\ IF ~ensure_logged_in(logged_in) THEN NotLoggedIn("_public_status")
       ELSE /\ \E answer \in Answers(E, "job.public", observed, E.flags) :
                 LET c == Call(cookies, csrf, observed, "job.public", job.id, answer)
                 IN  /\ cookies' = c.cookies
                     /\ observed' = c.observed
                     /\ last' = Translate("_public_status", c.raised, <<c.req>>,
                                          c.value = 1)
            /\ UNCHANGED <<logged_in, csrf, job, wait_pc, polls>>

_get_url(E) == HasJob /\ RpcOp(E, "_get_url", "job.url", job.id, E.texts)

_public_url(E) == HasJob /\ RpcOp(E, "_public_url", "job.publicurl", job.id, E.texts)

_get_compiler_errors(E) ==
    HasJob /\ RpcOp(E, "_get_compiler_errors", "job.compilerErrors", job.id, E.texts)

_source(E) == HasJob /\ RpcOp(E, "_source", "job.source", job.id, E.texts)

----------------------------------------------------------------------------
(* fetch_url (boaapi/util.py).  A URL is its scheme and the rest; `web`    *)
(* maps each URL with a scheme to the HTTP response a GET of it gets:      *)
(* status, Location, Content-Encoding and body.  Bodies are sequences of   *)
(* bytes.                                                                  *)

\* A gzip stream of `content`: the two magic bytes 1f 8b, then the content
\* recoded byte by byte (standing for the deflate stream).
Gzip(content) == <<31, 139>> \o [i \in DOMAIN content |-> (content[i] + 1) % 256]

\* Whether gzip.GzipFile(...).read() accepts the bytes: an empty input
\* reads as empty, anything else must start with the magic bytes.
IsGzip(body) == body = <<>> \/ (Len(body) >= 2 /\ body[1] = 31 /\ body[2] = 139)

\* gzip.GzipFile(...).read(): the content of a gzip stream.
gunzip(body) ==
    IF body = <<>> THEN <<>>
    ELSE [i \in 1..(Len(body) - 2) |-> (body[i + 2] + 255) % 256]

\* A request target http.client refuses (InvalidURL): one with a blank.
InvalidTarget(url) == url.rest = " "

\* A fetch that returns the body of the first response, redirect or not.
fetch_url_first_response(url, web) ==
    IF url.scheme = ""
    THEN [exc |-> "BoaException", cause |-> "none", gets |-> <<>>, body |-> None]
    ELSE IF InvalidTarget(url)
    THEN [exc |-> "BoaException", cause |-> "InvalidURL", gets |-> <<>>, body |-> None]
    ELSE LET r1 == web[url]
         IN  IF r1.encoding = "gzip"
             THEN IF IsGzip(r1.body)
                  THEN [exc |-> "none", cause |-> "none", gets |-> <<url>>,
                        body |-> gunzip(r1.body)]
                  ELSE [exc |-> "BadGzipFile", cause |-> "none", gets |-> <<url>>,
                        body |-> None]
             ELSE [exc |-> "none", cause |-> "none", gets |-> <<url>>, body |-> r1.body]

\* A fetch that follows redirects and returns every body as it came.
RECURSIVE fetch_url_undecoded(_, _)
fetch_url_undecoded(url, web) ==
    IF url.scheme = ""
    THEN [exc |-> "BoaException", cause |-> "none", gets |-> <<>>, body |-> None]
    ELSE IF InvalidTarget(url)
    THEN [exc |-> "BoaException", cause |-> "InvalidURL", gets |-> <<>>, body |-> None]
    ELSE LET r1 == web[url]
         IN  IF r1.status = 301
             THEN LET rest == fetch_url_undecoded(r1.location, web)
                  IN  [rest EXCEPT !.gets = <<url>> \o @]
             ELSE [exc |-> "none", cause |-> "none", gets |-> <<url>>, body |-> r1.body]

\* fetch_url: no scheme, or a target the connection refuses, is
\* BoaException; a 301 is answered by fetching its Location; a gzip
\* Content-Encoding by decompressing the body; anything else by the body.
RECURSIVE fetch_url(_, _)
fetch_url(url, web) ==
    IF url.scheme = ""
    THEN [exc |-> "BoaException", cause |-> "none", gets |-> <<>>, body |-> None]
    ELSE IF InvalidTarget(url)
    THEN [exc |-> "BoaException", cause |-> "InvalidURL", gets |-> <<>>, body |-> None]
    ELSE LET r1 == web[url]
         IN  IF r1.status = 301
             THEN LET rest == fetch_url(r1.location, web)
                  IN  [rest EXCEPT !.gets = <<url>> \o @]
             ELSE IF r1.encoding = "gzip"
             THEN IF IsGzip(r1.body)
                  THEN [exc |-> "none", cause |-> "none", gets |-> <<url>>,
                        body |-> gunzip(r1.body)]
                  ELSE [exc |-> "BadGzipFile", cause |-> "none", gets |-> <<url>>,
                        body |-> None]
             ELSE [exc |-> "none", cause |-> "none", gets |-> <<url>>, body |-> r1.body]

\* A caller fetches a URL with util.fetch_url; the outcome keeps the URL
\* and the web it ran against next to the bytes returned.
fetch_url_call(E) ==
    /\ Idle
    /\ \E url \in E.urls, web \in E.webs :
         LET f == fetch_url(url, web)
         IN  last' = [Outcome("fetch_url", f.exc, f.cause, <<>>,
                              [url |-> url, web |-> web, body |-> f.body])
                         EXCEPT !.gets = f.gets]
    /\ UNCHANGED <<logged_in, cookies, csrf, job, wait_pc, polls, observed>>

\* bytes.decode('utf-8') on the bytes the model uses: the ASCII bytes
\* decode to their characters, a byte of 128 or more alone does not decode.
IsUtf8(bytes) == \A i \in DOMAIN bytes : bytes[i] < 128

Chr(b) == CASE b = 104 -> "h" [] b = 105 -> "i" [] OTHER -> "?"

decode(bytes) == [i \in DOMAIN bytes |-> Chr(bytes[i])]

----------------------------------------------------------------------------
(* The output operations: after the login check, a handle whose cached     *)
(* execution status is not FINISHED gets BoaException without any call.    *)

NotFinished(op) ==
    /\ last' = Outcome(op, "BoaException", "none", <<>>, "Job is currently running")
    /\ UNCHANGED <<logged_in, cookies, csrf, job, wait_pc, polls, observed>>

\* A gate that stops only the jobs whose execution is under way.
not_finished_running_only(h) == h.exec_status = RUNNING

\* "if job.exec_status != ExecutionStatus.FINISHED:"
not_finished(h) == h.exec_status # FINISHED

\* _output: fetch_url(job.output(id)).decode('utf-8')
_output(E) ==
    /\ HasJob
    /\ Idle
    /\ IF ~ensure_logged_in(logged_in) THEN NotLoggedIn("_output")
       ELSE IF not_finished(job) THEN NotFinished("_output")
       ELSE /\ \E answer \in Answers(E, "job.output", observed, E.urls), web \in E.webs :
                 LET c == Call(cookies, csrf, observed, "job.output", job.id, answer)
                     f == fetch_url(c.value, web)
                 IN  /\ cookies' = c.cookies
                     /\ observed' = c.observed
                     /\ last' =
                          IF c.raised # "none"
                          THEN Translate("_output", c.raised, <<c.req>>, None)
                          ELSE IF f.exc # "none"
                          THEN [Outcome("_output", f.exc, f.cause, <<c.req>>, None)
                                    EXCEPT !.gets = f.gets]
                          ELSE IF ~IsUtf8(f.body)
                          THEN [Outcome("_output", "UnicodeDecodeError", "none",
                                        <<c.req>>, None) EXCEPT !.gets = f.gets]
                          ELSE [Outcome("_output", "none", "none", <<c.req>>,
                                        decode(f.body)) EXCEPT !.gets = f.gets]
            /\ UNCHANGED <<logged_in, csrf, job, wait_pc, polls>>

\* _output_size: job.outputsize(id)
_output_size(E) ==
    /\ HasJob
    /\ Idle
    /\ IF ~ensure_logged_in(logged_in) THEN NotLoggedIn("_output_size")
       ELSE IF not_finished(job) THEN NotFinished("_output_size")
       ELSE /\ \E answer \in Answers(E, "job.outputsize", observed, E.counts) :
                 LET c == Call(cookies, csrf, observed, "job.outputsize", job.id, answer)
                 IN  /\ cookies' = c.cookies
                     /\ observed' = c.observed
                     /\ last' = Translate("_output_size", c.raised, <<c.req>>, c.value)
            /\ UNCHANGED <<logged_in, csrf, job, wait_pc, polls>>

\* _output_hash: (int(res[0]), str(res[1])) of job.outputhash(id)
_output_hash(E) ==
    /\ HasJob
    /\ Idle
    /\ IF ~ensure_logged_in(logged_in) THEN NotLoggedIn("_output_hash")
       ELSE IF not_finished(job) THEN NotFinished("_output_hash")
       ELSE /\ \E answer \in Answers(E, "job.outputhash", observed, E.hashes) :
                 LET c == Call(cookies, csrf, observed, "job.outputhash", job.id, answer)
                 IN  /\ cookies' = c.cookies
                     /\ observed' = c.observed
                     /\ last' = Translate("_output_hash", c.raised, <<c.req>>,
                                          IF c.raised = "none"
                                          THEN <<c.value[1], c.value[2]>> ELSE None)
            /\ UNCHANGED <<logged_in, csrf, job, wait_pc, polls>>

----------------------------------------------------------------------------
(* JobHandle.is_running, refresh and wait (boaapi/job_handle.py).          *)

\* An is_running that takes a waiting execution for running whatever the
\* compiler did.
is_running_ignoring_compiler(h) ==
    \/ h.compiler_status = RUNNING
    \/ h.exec_status = RUNNING
    \/ h.compiler_status = WAITING
    \/ h.exec_status = WAITING

is_running(h) ==
    \/ h.compiler_status = RUNNING
    \/ h.exec_status = RUNNING
    \/ h.compiler_status = WAITING
    \/ (h.exec_status = WAITING /\ h.compiler_status = FINISHED)

\* The caller asks the handle whether it runs.
is_running_call ==
    /\ HasJob
    /\ Idle
    /\ last' = Outcome("is_running", "none", "none", <<>>, is_running(job))
    /\ UNCHANGED <<logged_in, cookies, csrf, job, wait_pc, polls, observed>>

\* A refresh that takes over every field of the fetched handle.
Refreshed_wholesale(h, fetched) == fetched

\* refresh's assignments: the two statuses and the date of the fetched
\* handle; id and dataset stay.
Refreshed(h, fetched) ==
    [h EXCEPT !.compiler_status = fetched.compiler_status,
              !.exec_status = fetched.exec_status,
              !.date = fetched.date]

\* refresh: job = self.client.get_job(self.id), then the assignments; an
\* exception of get_job leaves before any of them.
refresh(E) ==
    /\ HasJob
    /\ Idle
    /\ IF ~ensure_logged_in(logged_in) THEN NotLoggedIn("refresh")
       ELSE /\ \E answer \in Answers(E, "boa.job", observed, E.records) :
                 LET c == Call(cookies, csrf, observed, "boa.job", job.id, answer)
                     out == Built("refresh", c, <<c.req>>)
                 IN  /\ cookies' = c.cookies
                     /\ observed' = c.observed
                     /\ last' = out
                     /\ job' = IF Returned(out) THEN Refreshed(job, out.result.handle)
                               ELSE job
            /\ UNCHANGED <<logged_in, csrf, wait_pc, polls>>

\* A wait() that sleeps and refreshes once before it first tests.
wait_call_polling_first ==
    /\ HasJob
    /\ Idle
    /\ wait_pc' = "sleep"
    /\ polls' = 0
    /\ last' = Outcome("wait", "pending", "none", <<>>, None)
    /\ UNCHANGED <<logged_in, cookies, csrf, job, observed>>

\* wait(), entered: nothing has happened yet.
wait_call ==
    /\ HasJob
    /\ Idle
    /\ wait_pc' = "test"
    /\ polls' = 0
    /\ last' = Outcome("wait", "pending", "none", <<>>, None)
    /\ UNCHANGED <<logged_in, cookies, csrf, job, observed>>

\* A wait() that keeps polling until the execution has finished.
wait_test_until_finished ==
    /\ wait_pc = "test"
    /\ IF job.exec_status # FINISHED
       THEN /\ polls < MaxPolls
            /\ wait_pc' = "sleep"
            /\ UNCHANGED last
       ELSE /\ wait_pc' = "idle"
            /\ last' = [last EXCEPT
                          !.exc = "none",
                          !.result = ~(job.compiler_status = ERROR
                                       \/ job.exec_status = ERROR)]
    /\ UNCHANGED <<logged_in, cookies, csrf, job, polls, observed>>

\* A wait() that reports failure only when both axes are in error.
wait_test_both_errors ==
    /\ wait_pc = "test"
    /\ IF is_running(job)
       THEN /\ polls < MaxPolls
            /\ wait_pc' = "sleep"
            /\ UNCHANGED last
       ELSE /\ wait_pc' = "idle"
            /\ last' = [last EXCEPT
                          !.exc = "none",
                          !.result = ~(job.compiler_status = ERROR
                                       /\ job.exec_status = ERROR)]
    /\ UNCHANGED <<logged_in, cookies, csrf, job, polls, observed>>

\* "while self.is_running():" and, when it is false, the return statement.
wait_test ==
    /\ wait_pc = "test"
    /\ IF is_running(job)
       THEN /\ polls < MaxPolls
            /\ wait_pc' = "sleep"
            /\ UNCHANGED last
       ELSE /\ wait_pc' = "idle"
            /\ last' = [last EXCEPT
                          !.exc = "none",
                          !.result = ~(job.compiler_status = ERROR
                                       \/ job.exec_status = ERROR)]
    /\ UNCHANGED <<logged_in, cookies, csrf, job, polls, observed>>

\* A wait() that swallows a failed refresh and goes on polling.
wait_poll_retrying(E) ==
    /\ wait_pc = "sleep"
    /\ IF ~ensure_logged_in(logged_in)
       THEN /\ wait_pc' = "test"
            /\ polls' = polls + 1
            /\ last' = last
            /\ UNCHANGED <<cookies, observed, job>>
       ELSE \E answer \in Answers(E, "boa.job", observed, E.records) :
              LET c == Call(cookies, csrf, observed, "boa.job", job.id, answer)
                  out == Built("wait", c, Append(last.reqs, c.req))
              IN  /\ cookies' = c.cookies
                  /\ observed' = c.observed
                  /\ polls' = polls + 1
                  /\ IF Returned(out)
                     THEN /\ job' = Refreshed(job, out.result.handle)
                          /\ wait_pc' = "test"
                          /\ last' = [last EXCEPT !.reqs = out.reqs]
                     ELSE /\ job' = job
                          /\ wait_pc' = "test"
                          /\ last' = [last EXCEPT !.reqs = out.reqs]
    /\ UNCHANGED <<logged_in, csrf>>

\* The loop body: sleep(2), then self.refresh(); an exception of refresh
\* ends wait().
wait_poll(E) ==
    /\ wait_pc = "sleep"
    /\ IF ~ensure_logged_in(logged_in)
       THEN /\ wait_pc' = "idle"
            /\ polls' = polls + 1
            /\ last' = [last EXCEPT !.exc = "NotLoggedInException"]
            /\ UNCHANGED <<cookies, observed, job>>
       ELSE \E answer \in Answers(E, "boa.job", observed, E.records) :
              LET c == Call(cookies, csrf, observed, "boa.job", job.id, answer)
                  out == Built("wait", c, Append(last.reqs, c.req))
              IN  /\ cookies' = c.cookies
                  /\ observed' = c.observed
                  /\ polls' = polls + 1
                  /\ IF Returned(out)
                     THEN /\ job' = Refreshed(job, out.result.handle)
                          /\ wait_pc' = "test"
                          /\ last' = [last EXCEPT !.reqs = out.reqs]
                     ELSE /\ job' = job
                          /\ wait_pc' = "idle"
                          /\ last' = out
    /\ UNCHANGED <<logged_in, csrf>>

----------------------------------------------------------------------------
(* Environments.                                                           *)

DS1 == [id |-> 1, name |-> "ds1"]
DS2 == [id |-> 2, name |-> "ds2"]

\* A job record of the server; `public` is what the server knows of the
\* job's visibility (no key the client reads).
Record(id, date, compiler, execution) ==
    [id |-> id, submitted |-> date, input |-> DS1.id,
     compiler_status |-> compiler, hadoop_status |-> execution, public |-> TRUE]

Private(rec) == [rec EXCEPT !.public = FALSE]

OutUrl == [scheme |-> "https", port |-> 0, rest |-> "//boa/out"]

OutWeb == [u \in {OutUrl} |->
             [status |-> 200, location |-> None, encoding |-> "identity",
              body |-> <<104, 105>>]]

\* The client as a whole: every operation, one cookie and one token value,
\* a finished and a running job.
ClientEnv ==
    [ directives |-> { <<"b">> },
      setters    |-> { "user.login" },
      failures   |-> { "fault", "malformed", "transport" },
      tokens     |-> { <<"t">> },
      ids        |-> { 1 },
      records    |-> { Record(1, "d1", "Finished", "Finished"),
                       Record(1, "d1", "Finished", "Running") },
      lists      |-> { <<>>, <<Record(1, "d1", "Finished", "Finished")>> },
      ranges     |-> { <<TRUE, 0, 2>> },
      datasets   |-> { <<>>, <<DS1, DS2>> },
      names      |-> { "ds2" },
      given      |-> { DS2 },
      queries    |-> { "q" },
      counts     |-> { 2 },
      flags      |-> { 0, 1 },
      texts      |-> { "text" },
      urls       |-> { OutUrl },
      webs       |-> { OutWeb },
      hashes     |-> { <<2, "h">> } ]

\* The transport under load: every answer may carry Set-Cookie directives,
\* with and without attributes.
TransportEnv ==
    [ClientEnv EXCEPT
        !.directives = Directives,
        !.setters = { "user.login", "user.logout", "boa.datasets", "boa.submit" },
        !.records = { Record(1, "d1", "Finished", "Finished") }]

\* The job handle under load: records with every pair of statuses, from a
\* server that sets no cookies.
JobEnv ==
    [ClientEnv EXCEPT
        !.setters = {},
        !.failures = { "fault" },
        !.records = { Record(1, "d1", c, e) :
                        c \in PlainStatusStrings, e \in PlainStatusStrings }]

\* The decoders under load: records with every pair of status strings.
CodecEnv ==
    [ClientEnv EXCEPT
        !.setters = {},
        !.failures = { "fault" },
        !.records = { Record(1, "d1", c, e) : c \in StatusStrings, e \in StatusStrings },
        !.lists = { <<>>,
                    <<Record(1, "d1", "Finished", "Finished")>>,
                    <<Record(2, "d2", "finished", "Waiting"),
                      Record(1, "d1", "Running", "")>> }]

\* URLs and responses for fetch_url: the output URL on other ports, a
\* URL without a scheme, a URL with a blank in it.
Hop(k) == [OutUrl EXCEPT !.port = k]

Hops == { Hop(k) : k \in 0..MaxRedirects }

RelativeUrl == [scheme |-> "", port |-> 0, rest |-> "/out"]
BlankUrl == [scheme |-> "http", port |-> 0, rest |-> " "]

Response(status, location, encoding, body) ==
    [status |-> status, location |-> location, encoding |-> encoding, body |-> body]

Page(body) == Response(200, None, "identity", body)

Zipped(content) == Response(200, None, "gzip", Gzip(content))

\* A 301 with a body of its own, on odd ports declared gzip-encoded.
Moved(to) ==
    Response(301, to, IF to.port % 2 = 0 THEN "gzip" ELSE "identity", <<33>>)

Contents == { <<>>, <<104>>, <<104, 105>> }

\* What the last URL of a chain may answer: a content plain or
\* compressed, compressed bytes without the header, the header on bytes
\* that are no gzip stream, the header on an empty body.
Finals ==
    { Page(c) : c \in Contents } \cup { Zipped(c) : c \in Contents }
        \cup { Page(Gzip(<<104, 105>>)),
               Response(200, None, "gzip", <<104, 105>>),
               Response(200, None, "gzip", <<>>) }

\* Chains of 0..MaxRedirects redirects from the output URL to each final
\* response, and a redirect to a Location without a scheme.
Webs ==
    { [u \in Hops |-> IF u.port < n THEN Moved(Hop(u.port + 1)) ELSE final] :
          n \in 0..MaxRedirects, final \in Finals }
        \cup { [u \in Hops |->
                    IF u = OutUrl THEN Moved(RelativeUrl) ELSE Page(<<104>>)] }

\* The output path under load.
FetchEnv ==
    [ClientEnv EXCEPT
        !.setters = {},
        !.failures = { "fault" },
        !.records = { Record(1, "d1", "Finished", "Finished") },
        !.urls = { OutUrl, Hop(1), RelativeUrl, BlankUrl },
        !.webs = Webs]

\* A record the server sent without one of its keys.
Without(rec, key) == [k \in DOMAIN rec \ {key} |-> rec[k]]

\* The operations that build handles under load: dataset lists in both
\* orders, either dataset given, records complete and lacking each key,
\* lists in and out of order and with an incomplete record.
BuildEnv ==
    [ClientEnv EXCEPT
        !.setters = {},
        !.failures = { "fault", "transport" },
        !.records = { Record(1, "d1", "Finished", "Finished") }
                      \cup { Without(Record(1, "d1", "Finished", "Finished"), k) :
                                k \in JobKeys },
        !.datasets = { <<>>, <<DS1, DS2>>, <<DS2, DS1>> },
        !.given = { DS1, DS2 },
        !.lists = { <<>>,
                    <<Record(1, "d1", "Finished", "Finished")>>,
                    <<Record(2, "d2", "Running", "Waiting"),
                      Record(1, "d1", "Finished", "Finished")>>,
                    <<Record(1, "d1", "Finished", "Finished"),
                      Record(2, "d2", "Running", "Waiting")>>,
                    <<Record(2, "d2", "Running", "Waiting"),
                      Private(Record(3, "d3", "Waiting", "Waiting"))>>,
                    <<Record(2, "d2", "Running", "Waiting"),
                      Without(Record(1, "d1", "Finished", "Finished"), "hadoop_status")>>,
                    <<Record(3, "d3", "Waiting", "Waiting"),
                      Record(1, "d1", "Finished", "Finished"),
                      Record(2, "d2", "Running", "Waiting")>> },
        !.ranges = { <<TRUE, 0, 2>>, <<FALSE, 0, 2>>, <<FALSE, 1, 3>> }]

\* The session under load: login may return either of two tokens and
\* fail in every way.
SessionEnv ==
    [ClientEnv EXCEPT
        !.tokens = { <<"t">>, <<"u">> }]

\* One handle under every handle operation: the server answers boa.job
\* with records whose id, timestamp and dataset may differ from the
\* handle's.
HandleEnv ==
    [ClientEnv EXCEPT
        !.setters = {},
        !.failures = { "fault" },
        !.records = { Record(1, "d1", "Finished", "Finished"),
                      Record(1, "d1", "Running", "Waiting"),
                      Record(1, "d2", "Waiting", "Waiting"),
                      Without(Record(1, "d1", "Running", "Waiting"), "hadoop_status"),
                      [Record(2, "d2", "Finished", "Error") EXCEPT !.input = DS2.id] }]

----------------------------------------------------------------------------

Init ==
    /\ logged_in = FALSE
    /\ cookies = <<>>
    /\ csrf = <<>>
    /\ job = NoJob
    /\ wait_pc = "idle"
    /\ polls = 0
    /\ last = Outcome("init", "none", "none", <<>>, None)
    /\ observed = <<>>

Next ==
    \/ login(ClientEnv)
    \/ close(ClientEnv)
    \/ datasets(ClientEnv)
    \/ dataset_names(ClientEnv)
    \/ get_dataset(ClientEnv)
    \/ last_job(ClientEnv)
    \/ job_count(ClientEnv)
    \/ query(ClientEnv)
    \/ get_job(ClientEnv)
    \/ job_list(ClientEnv)
    \/ _stop(ClientEnv)
    \/ _resubmit(ClientEnv)
    \/ _delete(ClientEnv)
    \/ _set_public(ClientEnv)
    \/ _public_status(ClientEnv)
    \/ _get_url(ClientEnv)
    \/ _public_url(ClientEnv)
    \/ _get_compiler_errors(ClientEnv)
    \/ _source(ClientEnv)
    \/ _output(ClientEnv)
    \/ _output_size(ClientEnv)
    \/ _output_hash(ClientEnv)
    \/ is_running_call
    \/ refresh(ClientEnv)
    \/ wait_call
    \/ wait_test
    \/ wait_poll(ClientEnv)

Spec == Init /\ [][Next]_vars

\* The session operations against TransportEnv.
NextTransport ==
    \/ login(TransportEnv)
    \/ close(TransportEnv)
    \/ datasets(TransportEnv)
    \/ query(TransportEnv)

TransportSpec == Init /\ [][NextTransport]_vars

\* The operations on one job handle against JobEnv.
NextJob ==
    \/ login(JobEnv)
    \/ close(JobEnv)
    \/ get_job(JobEnv)
    \/ _output(JobEnv)
    \/ _output_size(JobEnv)
    \/ _output_hash(JobEnv)
    \/ is_running_call
    \/ refresh(JobEnv)
    \/ wait_call
    \/ wait_test
    \/ wait_poll(JobEnv)

\* The operations that build job handles against CodecEnv.
NextCodec ==
    \/ login(CodecEnv)
    \/ query(CodecEnv)
    \/ get_job(CodecEnv)
    \/ job_list(CodecEnv)
    \/ last_job(CodecEnv)

CodecSpec == Init /\ [][NextCodec]_vars

JobSpec == Init /\ [][NextJob]_vars

\* Every operation of a handle, and the get_job that hands it out,
\* against HandleEnv.
NextHandle ==
    \/ login(HandleEnv)
    \/ close(HandleEnv)
    \/ get_job(HandleEnv)
    \/ _stop(HandleEnv)
    \/ _resubmit(HandleEnv)
    \/ _delete(HandleEnv)
    \/ _set_public(HandleEnv)
    \/ _public_status(HandleEnv)
    \/ _get_url(HandleEnv)
    \/ _public_url(HandleEnv)
    \/ _get_compiler_errors(HandleEnv)
    \/ _source(HandleEnv)
    \/ _output(HandleEnv)
    \/ _output_size(HandleEnv)
    \/ _output_hash(HandleEnv)
    \/ is_running_call
    \/ refresh(HandleEnv)
    \/ wait_call
    \/ wait_test
    \/ wait_poll(HandleEnv)

HandleSpec == Init /\ [][NextHandle]_vars

\* fetch_url, called directly and through _output, against FetchEnv.
NextFetch ==
    \/ fetch_url_call(FetchEnv)
    \/ login(FetchEnv)
    \/ get_job(FetchEnv)
    \/ _output(FetchEnv)

FetchSpec == Init /\ [][NextFetch]_vars

\* The operations that submit and list jobs against BuildEnv.
NextBuild ==
    \/ login(BuildEnv)
    \/ close(BuildEnv)
    \/ datasets(BuildEnv)
    \/ query(BuildEnv)
    \/ get_job(BuildEnv)
    \/ job_list(BuildEnv)
    \/ last_job(BuildEnv)

BuildSpec == Init /\ [][NextBuild]_vars

\* The session operations and one of each kind of the others against
\* SessionEnv.
NextSession ==
    \/ login(SessionEnv)
    \/ close(SessionEnv)
    \/ datasets(SessionEnv)
    \/ query(SessionEnv)
    \/ refresh(SessionEnv)

SessionSpec == Init /\ [][NextSession]_vars

\* wait() is a loop of the calling thread: once entered, its next step is
\* eventually taken.
JobLiveSpec == JobSpec /\ WF_vars(wait_test) /\ WF_vars(wait_poll(JobEnv))

----------------------------------------------------------------------------
(* Properties.  Their helper definitions restate what the text of each     *)
(* property says, independently of the operators above.                    *)

IsPrefix(s, t) == Len(s) <= Len(t) /\ SubSeq(t, 1, Len(s)) = s

Completed(op) == last.op = op /\ wait_pc = "idle"

\* C1: after a login whose remote call failed, on a client that was not
\* authenticated, the client is still not authenticated.
C1_FailedLoginStaysLoggedOut ==
    [][ (~logged_in /\ last' # last /\ last'.op = "login" /\ last'.exc # "none")
            => ~logged_in' ]_vars

\* The operations C2 names.
SessionOps ==
    { "close", "datasets", "dataset_names", "get_dataset", "last_job", "job_count",
      "query", "get_job", "job_list", "_stop", "_resubmit", "_delete", "_set_public",
      "_public_status", "_get_url", "_public_url", "_get_compiler_errors", "_source",
      "_output", "_output_size", "_output_hash" }

\* C2: a step of any of these operations taken while the client is not
\* authenticated ends in NotLoggedInException, sends no request, fetches
\* no URL and leaves cookies, tokens and the flag as they were.
C2_UnauthenticatedFailsFirst ==
    [][ (~logged_in /\ last' # last /\ last'.op \in SessionOps)
            => /\ last'.exc = "NotLoggedInException"
               /\ last'.reqs = <<>>
               /\ last'.gets = <<>>
               /\ cookies' = cookies
               /\ csrf' = csrf
               /\ logged_in' = logged_in ]_vars

\* An unauthenticated _output on a handle that has not finished, with
\* cookies and a token in the transport, reported not-logged-in.
C2_Witness ==
    /\ Completed("_output")
    /\ ~logged_in
    /\ last.exc = "NotLoggedInException"
    /\ job.exec_status # FINISHED
    /\ cookies # <<>>
    /\ csrf # <<>>

\* The part of a directive before its first ';'.
FirstPart(d) ==
    LET semis == { i \in DOMAIN d : d[i] = ";" }
    IN  IF semis = {} THEN d
        ELSE SubSeq(d, 1, (CHOOSE i \in semis : \A k \in semis : i <= k) - 1)

\* The pieces of a header value between its "; " separators.
RECURSIVE Pieces(_, _)
Pieces(value, piece) ==
    IF value = <<>> THEN <<piece>>
    ELSE IF Len(value) >= 2 /\ value[1] = ";" /\ value[2] = " "
    THEN <<piece>> \o Pieces(SubSeq(value, 3, Len(value)), <<>>)
    ELSE Pieces(Tail(value), Append(piece, Head(value)))

\* C3: the Cookie header of every request holds, in receipt order, the
\* value of every Set-Cookie directive received before it was sent.
C3_CookieHeaderCarriesAll ==
    \A i \in DOMAIN last.reqs :
        LET r == last.reqs[i]
        IN  r.seen # <<>> =>
              /\ "Cookie" \in DOMAIN r.headers
              /\ Pieces(r.headers["Cookie"], <<>>)
                    = [k \in DOMAIN r.seen |-> FirstPart(r.seen[k])]

\* A request sent after two different directives had arrived in two
\* different answers, the first of them with attributes.
C3_Witness ==
    /\ Len(last.reqs) = 2
    /\ Len(last.reqs[1].seen) = 1
    /\ Len(last.reqs[2].seen) = 2
    /\ last.reqs[2].seen[1] # FirstPart(last.reqs[2].seen[1])
    /\ last.reqs[2].seen[1] # last.reqs[2].seen[2]

\* C4: every request sent once a login has returned a token carries an
\* X-CSRF-Token header holding the tokens accumulated so far.
C4_CsrfHeaderOnEveryRequest ==
    (last.op # "login" /\ csrf # <<>>) =>
        \A i \in DOMAIN last.reqs :
            /\ "X-CSRF-Token" \in DOMAIN last.reqs[i].headers
            /\ last.reqs[i].headers["X-CSRF-Token"] = join(csrf)

\* C5: every step leaves the earlier cookie list a prefix of the later
\* one, and the earlier token list a prefix of the later one.
C5_ListsOnlyGrow ==
    [][ IsPrefix(cookies, cookies') /\ IsPrefix(csrf, csrf') ]_vars

\* A close that succeeded and left two different cookies and a token in
\* the transport.
C5_Witness ==
    /\ Completed("close")
    /\ last.exc = "none"
    /\ ~logged_in
    /\ Len(cookies) = 2
    /\ cookies[1] # cookies[2]
    /\ csrf # <<>>

\* The pairs (compiler, execution) the truth table calls running.
RunningPairs ==
    { <<c, e>> \in CompilerStatus \X ExecutionStatus :
        \/ c \in {RUNNING, WAITING}
        \/ e = RUNNING
        \/ (e = WAITING /\ c = FINISHED) }

NotRunningPairs ==
    { <<FINISHED, FINISHED>>, <<FINISHED, ERROR>>, <<ERROR, FINISHED>>,
      <<ERROR, ERROR>>, <<ERROR, WAITING>> }

StatusPair(h) == <<h.compiler_status, h.exec_status>>

\* C6: is_running() answers true on exactly the pairs of the truth table:
\* false on the five pairs listed, true on the other eleven.
C6_IsRunningTruthTable ==
    Completed("is_running") =>
        /\ last.result = (StatusPair(job) \in RunningPairs)
        /\ last.result = (StatusPair(job) \notin NotRunningPairs)

\* is_running() answered false for a failed compile with a waiting execution.
C6_Witness ==
    /\ Completed("is_running")
    /\ StatusPair(job) = <<ERROR, WAITING>>
    /\ last.result = FALSE

\* C7: once the loop test of wait() finds a pair that is not running, no
\* further poll happens and wait() returns.
C7_WaitTerminates ==
    /\ [][ (wait_pc = "test" /\ StatusPair(job) \notin RunningPairs)
              => (wait_pc' \in {"test", "idle"} /\ polls' = polls /\ job' = job) ]_vars
    /\ [](  (wait_pc = "test" /\ StatusPair(job) \notin RunningPairs)
              => <>(Completed("wait") /\ last.exc = "none") )

\* wait() returned after polling, on a pair that a refresh installed.
C7_Witness ==
    /\ Completed("wait")
    /\ last.exc = "none"
    /\ polls = MaxPolls
    /\ job.exec_status = ERROR

\* C8: when wait() has returned, the handle is not running, and the result
\* is false exactly when one of its two statuses is ERROR.
C8_WaitResult ==
    (Completed("wait") /\ last.exc = "none") =>
        /\ StatusPair(job) \notin RunningPairs
        /\ (last.result = FALSE) <=>
              (job.compiler_status = ERROR \/ job.exec_status = ERROR)

\* wait() returned false after a poll: the compile had finished, the
\* execution failed.
C8_Witness ==
    /\ Completed("wait")
    /\ last.exc = "none"
    /\ polls >= 1
    /\ StatusPair(job) = <<FINISHED, ERROR>>
    /\ last.result = FALSE

\* The status a status string stands for.
Decoded(string) ==
    CASE string = "Waiting" -> WAITING
      [] string = "Running" -> RUNNING
      [] string = "Finished" -> FINISHED
      [] OTHER -> ERROR

DecodedFrom(h, rec) ==
    /\ h.compiler_status = Decoded(rec.compiler_status)
    /\ h.exec_status = Decoded(rec.hadoop_status)

\* C9: every handle query, get_job, last_job and job_list build has both
\* statuses decoded from the strings of its server record.
C9_StatusDecoding ==
    /\ (last.op \in {"query", "get_job", "last_job"} /\ last.exc = "none") =>
          /\ DecodedFrom(last.result.handle, last.result.record)
          /\ job = last.result.handle
    /\ (last.op = "job_list" /\ last.exc = "none") =>
          /\ Len(last.result.handles) = Len(last.result.records)
          /\ \A i \in DOMAIN last.result.records :
                DecodedFrom(last.result.handles[i], last.result.records[i])

\* job_list built handles from a differently-cased and an empty status
\* string, and both decoded to ERROR.
C9_Witness ==
    /\ last.op = "job_list"
    /\ last.exc = "none"
    /\ Len(last.result.records) = 2
    /\ last.result.records[1].compiler_status = "finished"
    /\ last.result.handles[1].compiler_status = ERROR
    /\ last.result.records[2].hadoop_status = ""
    /\ last.result.handles[2].exec_status = ERROR

OutputMethod(op) ==
    CASE op = "_output" -> "job.output"
      [] op = "_output_size" -> "job.outputsize"
      [] op = "_output_hash" -> "job.outputhash"

\* C10: an output operation that passed the login check, on a handle whose
\* cached execution status is not FINISHED, ends in BoaException with no
\* request and no fetch; on a FINISHED handle it sends exactly its one
\* request, and _output, when that request is answered, fetches the URL.
C10_OutputGate ==
    (last.op \in {"_output", "_output_size", "_output_hash"}
        /\ last.exc # "NotLoggedInException") =>
        IF job.exec_status # FINISHED
        THEN /\ last.exc = "BoaException"
             /\ last.cause = "none"
             /\ last.reqs = <<>>
             /\ last.gets = <<>>
        ELSE /\ Len(last.reqs) = 1
             /\ last.reqs[1].method = OutputMethod(last.op)
             /\ last.reqs[1].arg = job.id
             /\ last.gets = IF last.op = "_output" /\ last.cause # "Fault"
                            THEN <<OutUrl>> ELSE <<>>

\* _output_hash on a handle whose execution failed was refused without a
\* request.
C10_Witness ==
    /\ Completed("_output_hash")
    /\ logged_in
    /\ job.exec_status = ERROR
    /\ last.exc = "BoaException"
    /\ last.reqs = <<>>

\* The operations that hand the caller a new handle.
HandleMakers == { "get_job", "query", "last_job" }

\* C11: a refresh that returned sent boa.job with the handle's own id and
\* left the handle with the statuses and timestamp of the fetched record
\* and with its id and dataset as before; and no step of an operation on
\* the handle the caller holds changes that handle's id.
C11_RefreshFrame ==
    [][ /\ (last'.op = "refresh" /\ last'.exc = "none") =>
              /\ Len(last'.reqs) = 1
              /\ last'.reqs[1].method = "boa.job"
              /\ last'.reqs[1].arg = job.id
              /\ job'.compiler_status = Decoded(last'.result.record.compiler_status)
              /\ job'.exec_status = Decoded(last'.result.record.hadoop_status)
              /\ job'.date = last'.result.record.submitted
              /\ job'.id = job.id
              /\ job'.dataset = job.dataset
        /\ (job # NoJob /\ last'.op \notin HandleMakers) => job'.id = job.id ]_vars

\* A refresh returned on a record with another id, another dataset and
\* another timestamp and statuses than the handle had.
C11_Witness ==
    /\ Completed("refresh")
    /\ last.exc = "none"
    /\ last.result.record.id # job.id
    /\ last.result.record.input # job.dataset
    /\ job.date = "d2"
    /\ job.id = 1
    /\ StatusPair(job) = <<FINISHED, ERROR>>

\* C12: close on an unauthenticated client is refused without a request;
\* on an authenticated one it sends user.logout and the client is
\* unauthenticated afterwards exactly when close returned.  While the
\* flag is set no operation is refused for want of a login; while it is
\* clear every session operation is; and only login sets it.
C12_CloseClearsAfterSuccess ==
    [][ /\ last'.op = "close" =>
              IF ~logged_in
              THEN /\ last'.exc = "NotLoggedInException"
                   /\ last'.reqs = <<>>
                   /\ ~logged_in'
              ELSE /\ Len(last'.reqs) = 1
                   /\ last'.reqs[1].method = "user.logout"
                   /\ logged_in' = (last'.exc # "none")
        /\ last'.op \in SessionOps =>
              ((last'.exc = "NotLoggedInException") = ~logged_in)
        /\ (~logged_in /\ logged_in') => last'.op = "login" ]_vars

\* A close whose user.logout faulted left the client authenticated.
C12_Witness ==
    /\ Completed("close")
    /\ last.exc = "BoaException"
    /\ last.cause = "Fault"
    /\ Len(last.reqs) = 1
    /\ logged_in

\* The exceptions of the RPC layer and of the connection under it.
RawErrors == { "Fault", "ExpatError", "ProtocolError" }

\* C13: no operation ends in an exception of the RPC or transport layer;
\* an operation whose remote call failed ends in BoaException with that
\* failure as its cause.
C13_RemoteFailuresTranslated ==
    /\ last.exc \notin RawErrors
    /\ (last.exc = "BoaException" /\ last.reqs # <<>> /\ last.gets = <<>>
            /\ last.op # "_output")
          => last.cause \in RawErrors

\* The URLs a fetch of `url` requests one after the other: each but the
\* last answered 301, each after the first the Location of the one before.
RECURSIVE Trail(_, _)
Trail(url, web) ==
    IF url.scheme = "" \/ url.rest = " " THEN <<>>
    ELSE IF web[url].status = 301 THEN <<url>> \o Trail(web[url].location, web)
    ELSE <<url>>

\* The URL the last redirect of a trail points to (the URL itself when
\* nothing was requested).
RECURSIVE Target(_, _)
Target(url, web) ==
    IF url.scheme = "" \/ url.rest = " " THEN url
    ELSE IF web[url].status = 301 THEN Target(web[url].location, web)
    ELSE url

Fetched == last.op = "fetch_url"

\* C14: a fetch requests the URL and then the Location of every 301 in
\* turn, n+1 GETs for n redirects; when the chain ends in a response that
\* is not a 301 (and not gzip-encoded) the bytes returned are exactly that
\* response's body; when it ends in a Location without a scheme the fetch
\* fails with BoaException.
C14_RedirectsFollowed ==
    Fetched =>
        LET url == last.result.url
            web == last.result.web
            end == Target(url, web)
        IN  /\ last.gets = Trail(url, web)
            /\ \A i \in DOMAIN last.gets :
                  (web[last.gets[i]].status = 301)
                      = (i < Len(last.gets) \/ end.scheme = "" \/ end.rest = " ")
            /\ end.scheme = "" => (last.exc = "BoaException" /\ last.result.body = None)
            /\ (end.scheme # "" /\ end.rest # " " /\ web[end].encoding # "gzip") =>
                  (last.exc = "none" /\ last.result.body = web[end].body)

\* A fetch through MaxRedirects redirects returned the body of the last
\* response.
C14_Witness ==
    /\ Fetched
    /\ last.exc = "none"
    /\ last.gets = [k \in 1..(MaxRedirects + 1) |-> Hop(k - 1)]
    /\ last.result.body = <<104, 105>>
    /\ last.result.web[Hop(MaxRedirects)] = Page(<<104, 105>>)

\* C15: when the final response is gzip-encoded and carries a compressed
\* content, the bytes returned are that content, the same bytes a fetch of
\* the same chain ending in the content uncompressed returns; when the
\* final response is not gzip-encoded its body is returned as it is.
C15_GzipRoundTrip ==
    Fetched =>
        LET url == last.result.url
            web == last.result.web
            end == Target(url, web)
        IN  (end.scheme # "" /\ end.rest # " ") =>
              /\ \A content \in Contents :
                    web[end] = Zipped(content) =>
                       /\ last.exc = "none"
                       /\ last.result.body = content
                       /\ last.result.body
                             = fetch_url(url, [web EXCEPT ![end] = Page(content)]).body
              /\ web[end].encoding # "gzip" =>
                    (last.exc = "none" /\ last.result.body = web[end].body)
              /\ (last.exc = "none" /\ last.result.body = web[end].body
                     /\ web[end].body # <<>>) => web[end].encoding # "gzip"

\* A fetch through a redirect whose final response was gzip-encoded
\* returned the content.
C15_Witness ==
    /\ Fetched
    /\ last.exc = "none"
    /\ last.gets = <<OutUrl, Hop(1)>>
    /\ last.result.web[Hop(1)] = Zipped(<<104, 105>>)
    /\ last.result.body = <<104, 105>>

\* C16: a query that passed the login check, called without a dataset,
\* first sends boa.datasets and, when that is answered with a non-empty
\* list, boa.submit with the query and the id of the list's first entry;
\* when the list call fails nothing is submitted.  Called with a dataset
\* it sends boa.submit with the query and that dataset's id, and nothing
\* else.
C16_QueryDefaultDataset ==
    (last.op = "query" /\ last.exc # "NotLoggedInException") =>
        LET q == last.args[1]
            dataset == last.args[2]
        IN  IF dataset = NoDataset
            THEN /\ Len(last.reqs) >= 1
                 /\ last.reqs[1].method = "boa.datasets"
                 /\ IF last.reqs[1].reply.kind # "ok"
                    THEN Len(last.reqs) = 1 /\ last.exc # "none"
                    ELSE IF last.reqs[1].reply.body = <<>>
                    THEN Len(last.reqs) = 1 /\ last.exc # "none"
                    ELSE /\ Len(last.reqs) = 2
                         /\ last.reqs[2].method = "boa.submit"
                         /\ last.reqs[2].arg = <<q, last.reqs[1].reply.body[1].id>>
            ELSE /\ Len(last.reqs) = 1
                 /\ last.reqs[1].method = "boa.submit"
                 /\ last.reqs[1].arg = <<q, dataset.id>>

\* A query without a dataset, the list answered as ds1 then ds2, was
\* submitted against dataset 1 and returned a handle.
C16_Witness ==
    /\ last.op = "query"
    /\ last.exc = "none"
    /\ last.args[2] = NoDataset
    /\ Len(last.reqs) = 2
    /\ last.reqs[1].reply.body = <<DS1, DS2>>
    /\ last.reqs[2].arg = <<"q", 1>>

ExpectedFields == { "id", "submitted", "input", "compiler_status", "hadoop_status" }

Lacking(rec) == ~(ExpectedFields \subseteq DOMAIN rec)

\* The last request of the operation was answered with a job record, or a
\* list holding one, that lacks an expected field.
ServedIncomplete ==
    /\ last.reqs # <<>>
    /\ LET r == last.reqs[Len(last.reqs)]
       IN  /\ r.reply.kind = "ok"
           /\ IF r.method = "boa.range"
              THEN \E i \in DOMAIN r.reply.body : Lacking(r.reply.body[i])
              ELSE r.method \in {"boa.job", "boa.submit"} /\ Lacking(r.reply.body)

\* C18: query, get_job and job_list, served a job record that lacks an
\* expected field, end in BoaException, not in a lookup error, and return
\* no handle.
C18_MissingFieldIsDomainError ==
    (last.op \in {"query", "get_job", "job_list"} /\ ServedIncomplete) =>
        /\ last.exc = "BoaException"
        /\ last.result = None

\* The operations a handle passes on to its client.
DelegatedOps ==
    { "_stop", "_resubmit", "_delete", "_set_public", "_public_status", "_get_url",
      "_public_url", "_source", "_get_compiler_errors", "_output", "_output_size",
      "_output_hash" }

\* C19: no step of a delegated operation changes the handle; the handle
\* the caller holds changes only in a step of refresh or wait (or when the
\* caller is handed a new one); and an output operation that passed the
\* login check is refused exactly when the status the handle held before
\* the step is not FINISHED.
C19_OnlyRefreshMutates ==
    [][ /\ last'.op \in DelegatedOps => job' = job
        /\ (job # NoJob /\ job' # job) =>
              last'.op \in {"refresh", "wait"} \cup HandleMakers
        /\ (last'.op \in {"_output", "_output_size", "_output_hash"}
               /\ last'.exc # "NotLoggedInException") =>
              ((last'.reqs = <<>>) = (job.exec_status # FINISHED)) ]_vars

\* A resubmit the server accepted left the handle finished as before.
C19_Witness ==
    /\ Completed("_resubmit")
    /\ last.exc = "none"
    /\ Len(last.reqs) = 1
    /\ StatusPair(job) = <<FINISHED, FINISHED>>

\* C20: a login that returned appends the token of its answer to the
\* token list, and nothing else; every other step, a failed login
\* included, leaves the list as it was.
C20_OneTokenPerLogin ==
    [][ IF last'.op = "login" /\ last'.exc = "none"
        THEN csrf' = Append(csrf, last'.reqs[1].reply.body.token)
        ELSE csrf' = csrf ]_vars

\* A second login without a close in between returned another token:
\* the list holds both, in the order of the logins.
C20_Witness ==
    /\ last.op = "login"
    /\ last.exc = "none"
    /\ last.reqs[1].reply.body.token = <<"u">>
    /\ csrf = << <<"t">>, <<"u">> >>
    /\ logged_in

\* The cookie values of the Set-Cookie directives in the answers to the
\* first n requests, leaving out the requests that got no HTTP answer.
RECURSIVE Harvested(_, _)
Harvested(reqs, n) ==
    IF n = 0 THEN <<>>
    ELSE LET reply == reqs[n].reply
         IN  Harvested(reqs, n - 1) \o
                (IF reply.kind \in {"ok", "fault", "malformed"}
                 THEN [k \in DOMAIN reply.setcookie |-> FirstPart(reply.setcookie[k])]
                 ELSE <<>>)

\* C21: an operation leaves in the cookie list, after the cookies it
\* found there, the cookie of every Set-Cookie directive of every answer
\* it received, in order, whether the answer carried a result, a fault or
\* an unparsable body; and each request it sends carries in its Cookie
\* header all cookies collected before that request.
C21_CookiesFromFaultsToo ==
    [][ last'.op \in {"login", "close", "datasets", "query"} =>
          /\ cookies' = cookies \o Harvested(last'.reqs, Len(last'.reqs))
          /\ \A i \in DOMAIN last'.reqs :
                LET due == cookies \o Harvested(last'.reqs, i - 1)
                    headers == last'.reqs[i].headers
                IN  due # <<>> =>
                      /\ "Cookie" \in DOMAIN headers
                      /\ Pieces(headers["Cookie"], <<>>) = due ]_vars

\* A query whose dataset-list call was answered with a result and a
\* cookie, and whose submit was answered with a fault and another cookie:
\* the operation failed, the submit carried the first cookie, and both
\* are in the list.
C21_Witness ==
    /\ last.op = "query"
    /\ last.exc = "BoaException"
    /\ last.cause = "Fault"
    /\ Len(last.reqs) = 2
    /\ last.reqs[2].reply.kind = "fault"
    /\ last.reqs[2].reply.setcookie = << <<"a", ";", "p">> >>
    /\ last.reqs[1].reply.setcookie = << <<"b">> >>
    /\ "Cookie" \in DOMAIN last.reqs[2].headers
    /\ cookies = << <<"b">>, <<"a">> >>

\* C22: wait() starts at its loop test with no poll and no request made.
\* The test makes no call: on a handle that is not running it returns at
\* once, whatever the login state; on a running one the loop body follows.
\* The loop body is one iteration: one sleep and one refresh, which on an
\* authenticated client sends exactly one boa.job request for the
\* handle's id and on an unauthenticated one is refused without a
\* request.  A wait() that returned sent as many requests as it made
\* iterations.
C22_WaitPollsOncePerIteration ==
    /\ [][ /\ (wait_pc = "idle" /\ wait_pc' # "idle") =>
                  (wait_pc' = "test" /\ polls' = 0 /\ last'.reqs = <<>>)
           /\ wait_pc = "test" =>
                  /\ polls' = polls
                  /\ last'.reqs = last.reqs
                  /\ job' = job
                  /\ (wait_pc' = "idle") = (StatusPair(job) \notin RunningPairs)
                  /\ wait_pc' = "idle" => last'.exc = "none"
           /\ wait_pc = "sleep" =>
                  /\ polls' = polls + 1
                  /\ IF logged_in
                     THEN /\ Len(last'.reqs) = Len(last.reqs) + 1
                          /\ SubSeq(last'.reqs, 1, Len(last.reqs)) = last.reqs
                          /\ last'.reqs[Len(last'.reqs)].method = "boa.job"
                          /\ last'.reqs[Len(last'.reqs)].arg = job.id
                     ELSE /\ last'.reqs = last.reqs
                          /\ last'.exc = "NotLoggedInException" ]_vars
    /\ []((Completed("wait") /\ last.exc = "none") =>
             (Len(last.reqs) = polls /\ last.gets = <<>>))

\* wait() on a finished handle of a client that has logged out returned
\* true without a poll or a request.
C22_Witness ==
    /\ Completed("wait")
    /\ last.exc = "none"
    /\ ~logged_in
    /\ polls = 0
    /\ last.reqs = <<>>
    /\ last.result = TRUE

\* Whether the get_job call of a step failed: the client was not
\* authenticated, or the request the step added to `reqs` was answered
\* with something else than a complete job record.
GetJobFailed(before, after) ==
    \/ ~logged_in
    \/ /\ Len(after) = Len(before) + 1
       /\ LET reply == after[Len(after)].reply
          IN  reply.kind # "ok" \/ Lacking(reply.body)

\* C23: a refresh whose get_job call failed raises and leaves the handle
\* as it was; the loop body of a wait() whose get_job call failed leaves
\* the handle as it was and ends the wait() with that exception; and a
\* wait() that has ended makes no further step until it is called again.
C23_FailedRefreshChangesNothing ==
    [][ /\ (last'.op = "refresh" /\ GetJobFailed(<<>>, last'.reqs)) =>
              /\ last'.exc \in {"NotLoggedInException", "BoaException", "KeyError"}
              /\ job' = job
        /\ (wait_pc = "sleep" /\ GetJobFailed(last.reqs, last'.reqs)) =>
              /\ last'.op = "wait"
              /\ last'.exc \in {"NotLoggedInException", "BoaException", "KeyError"}
              /\ job' = job
              /\ wait_pc' = "idle"
        /\ (wait_pc = "idle" /\ wait_pc' # "idle") =>
              (wait_pc' = "test" /\ last'.reqs = <<>> /\ last'.exc = "pending") ]_vars

\* A wait() refreshed the handle once and failed at its second poll,
\* answered with a record without its execution status: the handle keeps
\* what the first poll installed.
C23_Witness ==
    /\ Completed("wait")
    /\ last.exc = "KeyError"
    /\ polls = 2
    /\ Len(last.reqs) = 2
    /\ last.reqs[1].reply.body.submitted = "d2"
    /\ job.date = "d2"
    /\ StatusPair(job) = <<WAITING, WAITING>>

====
